---------------------------- MODULE Spec2Model ----------------------------
(***************************************************************************)
(* Model of static/wasm/my_sim.cpp: the MySim simulation (speed, size,     *)
(* myVal), its update and draw methods, the per-frame callback             *)
(* UpdateDrawFrame, main, and the embind control surface (properties       *)
(* speed and size).                                                        *)
(*                                                                         *)
(* The three fields are C++ floats.  A float is modelled as a pair         *)
(* <<m, e>> standing for m * 2^e with an odd significand m of at most      *)
(* MantBits bits (zero is <<0, 0>>); every arithmetic operation computes   *)
(* the exact result and rounds it to nearest, ties to even, as IEEE-754    *)
(* does.  float has 24 significand bits; the model keeps the rounding rule *)
(* and narrows the significand.  The exponent is not bounded and there is  *)
(* no infinity or NaN: the values reached within the bounds stay far from  *)
(* the overflow and underflow thresholds of float.                         *)
(***************************************************************************)
EXTENDS Integers, Sequences, FiniteSets, TLC

(***************************************************************************)
(* Bounds of the model                                                     *)
(***************************************************************************)
\* significand bits of the modelled float
MantBits == 4
\* frame callbacks per process run
MaxFrames == 3
\* process starts
MaxStarts == 2
\* segments of the sampled polyline over [tStart, tEnd]
NumSegments == 5
\* direct calls of update in the call-level specification
MaxCalls == 2

NULL == [nullptr |-> TRUE]

(***************************************************************************)
(* float arithmetic                                                        *)
(***************************************************************************)
RECURSIVE Pow2(_)
Pow2(n) == IF n <= 0 THEN 1 ELSE 2 * Pow2(n - 1)

Abs(n) == IF n < 0 THEN -n ELSE n

Sign(n) == IF n < 0 THEN -1 ELSE IF n > 0 THEN 1 ELSE 0

\* m * 2^e with the trailing zero bits of m moved into the exponent
RECURSIVE Norm(_, _)
Norm(m, e) ==
    IF m = 0 THEN <<0, 0>>
    ELSE IF m % 2 = 0 THEN Norm(m \div 2, e + 1)
    ELSE <<m, e>>

\* significands are below 2^MantBits
MantLimit == Pow2(MantBits)

\* the number of low bits of the magnitude mag that do not fit the significand
RECURSIVE ExcessBits(_)
ExcessBits(mag) ==
    IF mag < MantLimit THEN 0 ELSE 1 + ExcessBits(mag \div 2)

\* the float nearest to m * 2^e, ties to the even significand
RoundToFloat(m, e) ==
    LET mag  == Abs(m)
        k    == ExcessBits(mag)
        q    == mag \div Pow2(k)
        r    == mag % Pow2(k)
        up   == 2 * r > Pow2(k) \/ (2 * r = Pow2(k) /\ q % 2 = 1)
        q2   == IF up THEN q + 1 ELSE q
    IN  Norm(Sign(m) * q2, e + k)

MinOf(a, b) == IF a <= b THEN a ELSE b

\* the exact sum of two floats, as a significand over their smaller exponent
ExactSum(a, b) ==
    LET e == IF a[1] = 0 THEN b[2] ELSE IF b[1] = 0 THEN a[2] ELSE MinOf(a[2], b[2])
    IN  <<a[1] * Pow2(a[2] - e) + b[1] * Pow2(b[2] - e), e>>

\* float + float
FAdd(a, b) == RoundToFloat(ExactSum(a, b)[1], ExactSum(a, b)[2])

\* float * float
FMul(a, b) == RoundToFloat(a[1] * b[1], a[2] + b[2])

FNeg(a) == <<-a[1], a[2]>>

\* the sign of a - b
FCmp(a, b) == Sign(ExactSum(a, FNeg(b))[1])

FLess(a, b) == FCmp(a, b) < 0

FLeq(a, b) == FCmp(a, b) <= 0

\* a float literal n / 2^d
Lit(n, d) == RoundToFloat(n, -d)

\* whether the exact value m * 2^e is a float, so that rounding it changes
\* nothing
IsExact(m, e) == RoundToFloat(m, e) = Norm(m, e)

FZero == <<0, 0>>
FOne == <<1, 0>>
FHalf == <<1, -1>>

(***************************************************************************)
(* State                                                                   *)
(***************************************************************************)
VARIABLES
    pc,           \* "start": before main; "loop": the main loop is set;
                  \* "unit": an instance driven by direct method calls
    simInstance,  \* the global MySim*: NULL or the object's fields
    screen,       \* what the last draw pass left on the canvas
    frames,       \* frame callbacks run since the process started
    updates,      \* calls of update since the process started
    draws,        \* calls of draw since the process started
    calls,        \* the last LogDepth method calls, oldest first
    touched,      \* the controller has written speed or size
    starts,       \* process starts so far
    runs          \* a pair of independent runs of the program, compared
                  \* with each other

vars == <<pc, simInstance, screen, frames, updates, draws, calls, touched, starts, runs>>

\* method calls remembered in the variable calls
LogDepth == 2
\* frame callbacks of each run of the pair
PairFrames == 2

\* values GetFrameTime returns: the seconds the last frame took
FrameTimes == {FZero, FHalf, FOne}
\* values the controller writes to the property speed during the frame loop
SpeedValues == {Lit(-1, 0), FOne, Lit(2, 0)}
\* values the controller writes to the property size during the frame loop
SizeValues == {Lit(2, 0), Lit(4, 0)}

\* an empty canvas
NoFrame == [grid |-> <<>>, curve |-> <<>>]

(***************************************************************************)
(* MySim                                                                   *)
(***************************************************************************)
\* a MySim object whose accumulator starts at 1
new_MySim_startsAtOne == [speed |-> Lit(1, 0), size |-> Lit(2, 0), myVal |-> FOne, anim |-> 0]

\* a MySim object as its member initializers leave it
new_MySim == [speed |-> Lit(1, 0), size |-> Lit(2, 0), myVal |-> FZero, anim |-> 0]

\* Animator::update: the helper is private to the object; the model keeps
\* the number of times it has been advanced
Animator_update(a, dt) == a + 1

\* update with = written for +=
update_assign(self, dt) ==
    [self EXCEPT !.anim  = Animator_update(self.anim, dt),
                 !.myVal = FMul(dt, self.speed)]

\* update that forgets the speed factor
update_ignoresSpeed(self, dt) ==
    [self EXCEPT !.anim  = Animator_update(self.anim, dt),
                 !.myVal = FAdd(self.myVal, dt)]

\* update with -= written for +=
update_subtracts(self, dt) ==
    [self EXCEPT !.anim  = Animator_update(self.anim, dt),
                 !.myVal = FAdd(self.myVal, FNeg(FMul(dt, self.speed)))]

\* update that clamps a negative deltaTime to 0
update_clamps(self, dt) ==
    [self EXCEPT !.anim  = Animator_update(self.anim, dt),
                 !.myVal = FAdd(self.myVal, FMul(IF FLess(dt, FZero) THEN FZero ELSE dt, self.speed))]

\* MySim::update
update(self, dt) ==
    [self EXCEPT !.anim  = Animator_update(self.anim, dt),
                 !.myVal = FAdd(self.myVal, FMul(dt, self.speed))]

\* sin(t) * (exp(cos(t)) - 2*cos(4*t) - pow(sin(t/12.0f), 5)) at t = 0..50,
\* in units of 1/256: pow(float, int) yields a double, so the factor is a
\* double, of more significand bits than a float
ShapeX ==
    << 0, 651, 221, -48, -471, -123, -124, 673, -226, 54,
       -215, 335, -437, 244, -309, 267, 93, 262, -554, 2,
       175, 218, 6, -239, -294, -16, 667, -71, -50, -389,
       136, -273, 518, -261, 224, -88, 219, -664, 143, 89,
       470, 50, -194, -674, 3, 642, 274, -39, -520, -247,
       -141 >>

\* cos(t) * (exp(cos(t)) - 2*cos(4*t) - pow(sin(t/12.0f), 5)) at t = 0..50,
\* in units of 1/256
ShapeY ==
    << 184, 418, -101, 334, -407, 36, 427, 772, 33, -119,
       -332, -1, 688, 526, -43, -312, 311, 75, 487, 10,
       78, -142, 633, -150, 138, 119, 566, 22, 179, -438,
       -21, 618, 784, 3, -359, -185, 28, 790, 460, 25,
       -421, 312, -85, 450, 193, 397, -131, 310, -433, 78,
       520 >>

\* the first closure reading the accumulator, so that the curve is animated
CurveX_usesMyVal(self, t) ==
    LET half == FMul(FAdd(self.size, self.myVal), FHalf)
    IN  RoundToFloat(ShapeX[t + 1] * half[1], half[2] - 8)

\* the second closure with size + 0.5f written for size * 0.5f
CurveY_offset(self, t) ==
    LET half == FAdd(self.size, FHalf)
    IN  RoundToFloat(ShapeY[t + 1] * half[1], half[2] - 8)

\* the first closure of draw: the double shape factor times the float
\* (size * 0.5f), handed to the renderer as a float
CurveX(self, t) ==
    LET half == FMul(self.size, FHalf)
    IN  RoundToFloat(ShapeX[t + 1] * half[1], half[2] - 8)

\* the second closure of draw
CurveY(self, t) ==
    LET half == FMul(self.size, FHalf)
    IN  RoundToFloat(ShapeY[t + 1] * half[1], half[2] - 8)

\* Draw::Grid(slices, spacing)
Draw_Grid(slices, spacing) == <<slices, spacing>>

\* Draw::Parametric: the points of the closures fx, fy at uniform steps of t
\* from tStart to tEnd inclusive, to be joined by segments
Draw_Parametric(fx, fy, tStart, tEnd) ==
    LET pts[i \in 0..(NumSegments + 1)] ==
            IF i = 0 THEN <<>>
            ELSE LET t == tStart + ((i - 1) * (tEnd - tStart)) \div NumSegments
                 IN  Append(pts[i - 1], <<fx[t], fy[t]>>)
    IN  pts[NumSegments + 1]

\* draw that also advances the accumulator
draw_advances(self) ==
    LET fx == [t \in 0..50 |-> CurveX(self, t)]
        fy == [t \in 0..50 |-> CurveY(self, t)]
    IN  [self |-> [self EXCEPT !.myVal = FAdd(self.myVal, self.speed)],
         out  |-> [grid  |-> Draw_Grid(Lit(10, 0), Lit(1, 0)),
                   curve |-> Draw_Parametric(fx, fy, 0, 50)]]

\* MySim::draw: the object as the call leaves it (self) and the cleared
\* frame with the grid and the butterfly curve (out)
draw(self) ==
    LET fx == [t \in 0..50 |-> CurveX(self, t)]
        fy == [t \in 0..50 |-> CurveY(self, t)]
    IN  [self |-> self,
         out  |-> [grid  |-> Draw_Grid(Lit(10, 0), Lit(1, 0)),
                   curve |-> Draw_Parametric(fx, fy, 0, 50)]]

(***************************************************************************)
(* Method calls on the instance.  A call state st holds the object (sim),  *)
(* the canvas (screen) and the record of calls (log).                      *)
(***************************************************************************)
\* the last LogDepth entries of the record of calls
Trim(s) == IF Len(s) > LogDepth THEN SubSeq(s, Len(s) - LogDepth + 1, Len(s)) ELSE s

\* simInstance->update(dt)
Call_update(st, dt) ==
    LET after == update(st.sim, dt)
    IN  [st EXCEPT !.sim = after,
                   !.log = Append(@, [op |-> "update", dt |-> dt, before |-> st.sim,
                                      after |-> after, out |-> NoFrame])]

\* simInstance->draw()
Call_draw(st) ==
    LET done == draw(st.sim)
    IN  [st EXCEPT !.sim = done.self,
                   !.screen = done.out,
                   !.log = Append(@, [op |-> "draw", dt |-> FZero, before |-> st.sim,
                                      after |-> done.self, out |-> done.out])]

\* the frame callback with its two calls in the other order
UpdateDrawFrameBody_drawFirst(st, dt) ==
    IF st.sim # NULL
    THEN Call_update(Call_draw(st), dt)
    ELSE st

\* the body of UpdateDrawFrame with GetFrameTime() = dt
UpdateDrawFrameBody(st, dt) ==
    IF st.sim # NULL
    THEN Call_draw(Call_update(st, dt))
    ELSE st

getSimInstance == simInstance

\* how many of the calls in log are calls of op
CountOf(log, op) == Cardinality({i \in 1..Len(log) : log[i].op = op})

(***************************************************************************)
(* The program                                                             *)
(***************************************************************************)
NoRuns == [i \in {1, 2} |-> [sim |-> NULL, screen |-> NoFrame, frames |-> 0, drawn |-> FZero]]

Init ==
    /\ pc = "start"
    /\ simInstance = NULL
    /\ screen = NoFrame
    /\ frames = 0
    /\ updates = 0
    /\ draws = 0
    /\ calls = <<>>
    /\ touched = FALSE
    /\ starts = 0
    /\ runs = NoRuns

\* main: the window, the instance, the main loop
main ==
    /\ pc = "start"
    /\ simInstance' = new_MySim
    /\ pc' = "loop"
    /\ starts' = starts + 1
    /\ UNCHANGED <<screen, frames, updates, draws, calls, touched, runs>>

\* one frame callback of the host's main loop
UpdateDrawFrame ==
    /\ pc = "loop"
    /\ frames < MaxFrames
    /\ \E dt \in FrameTimes :
        \E st \in {UpdateDrawFrameBody([sim |-> simInstance, screen |-> screen, log |-> <<>>], dt)} :
              /\ simInstance' = st.sim
              /\ screen' = st.screen
              /\ calls' = Trim(calls \o st.log)
              /\ updates' = updates + CountOf(st.log, "update")
              /\ draws' = draws + CountOf(st.log, "draw")
    /\ frames' = frames + 1
    /\ UNCHANGED <<pc, touched, starts, runs>>

\* the controller writes the bound property speed, between frames
SetSpeed(values) ==
    /\ getSimInstance # NULL
    /\ \E v \in values : simInstance' = [simInstance EXCEPT !.speed = v]
    /\ touched' = TRUE
    /\ UNCHANGED <<pc, screen, frames, updates, draws, calls, starts, runs>>

\* the controller writes the bound property size, between frames
SetSize(values) ==
    /\ getSimInstance # NULL
    /\ \E v \in values : simInstance' = [simInstance EXCEPT !.size = v]
    /\ touched' = TRUE
    /\ UNCHANGED <<pc, screen, frames, updates, draws, calls, starts, runs>>

\* the process ends and a new one starts: nothing is persisted
Restart ==
    /\ pc = "loop"
    /\ starts < MaxStarts
    /\ pc' = "start"
    /\ simInstance' = NULL
    /\ screen' = NoFrame
    /\ frames' = 0
    /\ updates' = 0
    /\ draws' = 0
    /\ calls' = <<>>
    /\ touched' = FALSE
    /\ UNCHANGED <<starts, runs>>

Next == main \/ UpdateDrawFrame \/ SetSpeed(SpeedValues) \/ SetSize(SizeValues) \/ Restart

Spec == Init /\ [][Next]_vars

(***************************************************************************)
(* The methods called directly on an instance in any state: update with    *)
(* any deltaTime, or draw, with property writes in between.                *)
(***************************************************************************)
\* values of myVal the calls start from
UnitVals == {Lit(-1, 0), FZero, FOne, Lit(8, 0)}
\* values written to speed and to size between the calls
UnitSpeeds == {Lit(-1, 0), FZero, FOne, Lit(2, 0)}
UnitSizes == {Lit(2, 0), Lit(3, 0), Lit(4, 0), Lit(6, 0)}
\* the deltaTime arguments
UnitTimes == {Lit(-1, 0), Lit(-1, 1), FZero, FHalf, FOne}

InitUnit ==
    /\ pc = "unit"
    /\ simInstance \in {[new_MySim EXCEPT !.myVal = a] : a \in UnitVals}
    /\ screen = NoFrame
    /\ frames = 0
    /\ updates = 0
    /\ draws = 0
    /\ calls = <<>>
    /\ touched = FALSE
    /\ starts = 1
    /\ runs = NoRuns

\* update(dt) called on the instance
CallUpdate ==
    /\ pc = "unit"
    /\ updates + draws < MaxCalls
    /\ \E dt \in UnitTimes :
        \E st \in {Call_update([sim |-> simInstance, screen |-> screen, log |-> <<>>], dt)} :
              /\ simInstance' = st.sim
              /\ screen' = st.screen
              /\ calls' = Trim(calls \o st.log)
    /\ updates' = updates + 1
    /\ UNCHANGED <<pc, frames, draws, touched, starts, runs>>

\* draw() called on the instance
CallDraw ==
    /\ pc = "unit"
    /\ updates + draws < MaxCalls
    /\ \E st \in {Call_draw([sim |-> simInstance, screen |-> screen, log |-> <<>>])} :
              /\ simInstance' = st.sim
              /\ screen' = st.screen
              /\ calls' = Trim(calls \o st.log)
    /\ draws' = draws + 1
    /\ UNCHANGED <<pc, frames, updates, touched, starts, runs>>

\* update called with any deltaTime, the controller writing speed in between
NextUpdate == CallUpdate \/ SetSpeed(UnitSpeeds)

SpecUpdate == InitUnit /\ [][NextUpdate]_vars

\* draw called again and again, the controller writing size in between
NextDraw == CallDraw \/ SetSize(UnitSizes)

SpecDraw == InitUnit /\ [][NextDraw]_vars

(***************************************************************************)
(* Two runs of the program side by side, each with its own frame times and *)
(* its own controller.                                                     *)
(***************************************************************************)
\* the frame times and the property writes of the two runs
PairTimes == {FHalf, FOne}
PairSpeeds == {FOne, Lit(2, 0)}
PairSizes == {Lit(2, 0), Lit(4, 0)}

PairMain(i) ==
    /\ runs[i].sim = NULL
    /\ runs' = [runs EXCEPT ![i].sim = new_MySim]
    /\ UNCHANGED <<pc, simInstance, screen, frames, updates, draws, calls, touched, starts>>

PairFrame(i) ==
    /\ runs[i].sim # NULL
    /\ runs[i].frames < PairFrames
    /\ \E dt \in PairTimes :
        \E st \in {UpdateDrawFrameBody([sim |-> runs[i].sim, screen |-> runs[i].screen,
                                        log |-> <<>>], dt)} :
            runs' = [runs EXCEPT ![i] = [sim    |-> st.sim,
                                         screen |-> st.screen,
                                         frames |-> runs[i].frames + 1,
                                         drawn  |-> st.log[Len(st.log)].before.size]]
    /\ UNCHANGED <<pc, simInstance, screen, frames, updates, draws, calls, touched, starts>>

PairSetSpeed(i) ==
    /\ runs[i].sim # NULL
    /\ \E v \in PairSpeeds : runs' = [runs EXCEPT ![i].sim.speed = v]
    /\ UNCHANGED <<pc, simInstance, screen, frames, updates, draws, calls, touched, starts>>

PairSetSize(i) ==
    /\ runs[i].sim # NULL
    /\ \E v \in PairSizes : runs' = [runs EXCEPT ![i].sim.size = v]
    /\ UNCHANGED <<pc, simInstance, screen, frames, updates, draws, calls, touched, starts>>

NextPair ==
    \E i \in {1, 2} : PairMain(i) \/ PairFrame(i) \/ PairSetSpeed(i) \/ PairSetSize(i)

SpecPair == Init /\ [][NextPair]_vars

(***************************************************************************)
(* Properties                                                              *)
(***************************************************************************)
\* the remembered calls that are calls of update, and of draw
UpdateCalls == {i \in 1..Len(calls) : calls[i].op = "update"}
DrawCalls == {i \in 1..Len(calls) : calls[i].op = "draw"}

\* the exact product of two floats, as a normalised pair
ExactProduct(a, b) == Norm(a[1] * b[1], a[2] + b[2])

\* C1: every frame callback with a live instance calls update once and then
\* draw once, draw starting from the state update left: the calls made so
\* far are update, draw, update, draw, ..., one pair per frame.
C1_UpdateThenDraw ==
    /\ updates = frames
    /\ draws = frames
    /\ Len(calls) = MinOf(LogDepth, 2 * frames)
    /\ \A i \in 1..Len(calls) :
          calls[i].op = (IF (Len(calls) - i) % 2 = 0 THEN "draw" ELSE "update")
    /\ \A i \in DrawCalls : i > 1 => calls[i].before = calls[i - 1].after

C1_Witness ==
    /\ frames = 2
    /\ updates = 2
    /\ draws = 2
    /\ calls[Len(calls) - 1].op = "update"
    /\ calls[Len(calls)].op = "draw"
    /\ calls[Len(calls) - 1].after.myVal # calls[Len(calls) - 1].before.myVal

\* C2: update(dt) sets myVal to the float sum of its previous value and the
\* float product dt * speed, with the speed current at the call; from 0,
\* speed 1.0 and dt 1.0 give 1.0, and speed 2.0 and dt 0.5 give 1.0.
C2_UpdateAddsDtTimesSpeed ==
    \A i \in UpdateCalls :
        LET c == calls[i]
        IN  /\ c.after.myVal = FAdd(c.before.myVal, FMul(c.dt, c.before.speed))
            /\ (c.before.myVal = FZero /\ c.before.speed = <<1, 0>> /\ c.dt = <<1, 0>>)
                  => c.after.myVal = <<1, 0>>
            /\ (c.before.myVal = FZero /\ c.before.speed = <<1, 1>> /\ c.dt = <<1, -1>>)
                  => c.after.myVal = <<1, 0>>

C2_Witness ==
    \E i \in UpdateCalls :
        /\ calls[i].before.myVal = FZero
        /\ calls[i].before.speed = <<1, 1>>
        /\ calls[i].dt = <<1, -1>>
        /\ simInstance.myVal = <<1, 0>>

\* C4: update(0) leaves myVal as it was, whatever speed and myVal are.
C4_UpdateZeroIsNoOp ==
    \A i \in UpdateCalls :
        calls[i].dt = FZero => calls[i].after.myVal = calls[i].before.myVal

C4_Witness ==
    \E i \in UpdateCalls :
        /\ calls[i].dt = FZero
        /\ calls[i].before.speed = <<-1, 0>>
        /\ calls[i].before.myVal = <<1, 3>>
        /\ calls[i].after.myVal = <<1, 3>>

\* the last two remembered calls are both calls of update, made with
\* non-negative deltaTimes at the same speed
TwoUpdates ==
    /\ Len(calls) >= 2
    /\ calls[Len(calls) - 1].op = "update"
    /\ calls[Len(calls)].op = "update"
    /\ calls[Len(calls) - 1].before.speed = calls[Len(calls)].before.speed
    /\ FLeq(FZero, calls[Len(calls) - 1].dt)
    /\ FLeq(FZero, calls[Len(calls)].dt)

\* myVal after the single call update(dt1 + dt2) from the state the first of
\* the two calls started in
SingleUpdate ==
    LET c1 == calls[Len(calls) - 1]
        c2 == calls[Len(calls)]
    IN  FAdd(c1.before.myVal, FMul(FAdd(c1.dt, c2.dt), c1.before.speed))

\* none of the float operations of the two calls, nor of the single call,
\* rounds its result
NoRounding ==
    LET c1 == calls[Len(calls) - 1]
        c2 == calls[Len(calls)]
        s  == c1.before.speed
        p1 == FMul(c1.dt, s)
        p2 == FMul(c2.dt, s)
        d  == FAdd(c1.dt, c2.dt)
        p  == FMul(d, s)
    IN  /\ IsExact(c1.dt[1] * s[1], c1.dt[2] + s[2])
        /\ IsExact(c2.dt[1] * s[1], c2.dt[2] + s[2])
        /\ IsExact(ExactSum(c1.dt, c2.dt)[1], ExactSum(c1.dt, c2.dt)[2])
        /\ IsExact(d[1] * s[1], d[2] + s[2])
        /\ IsExact(ExactSum(c1.before.myVal, p1)[1], ExactSum(c1.before.myVal, p1)[2])
        /\ IsExact(ExactSum(c2.before.myVal, p2)[1], ExactSum(c2.before.myVal, p2)[2])
        /\ IsExact(ExactSum(c1.before.myVal, p)[1], ExactSum(c1.before.myVal, p)[2])

\* C3 as stated: with speed fixed and dt1, dt2 >= 0, update(dt1) followed by
\* update(dt2) leaves the same myVal as the single call update(dt1 + dt2).
C3_Additivity ==
    TwoUpdates => simInstance.myVal = SingleUpdate

\* C3 as amended: the two calls and the single call leave the same myVal
\* whenever none of their float operations rounds its result.
C3_AdditivityWithoutRounding ==
    (TwoUpdates /\ NoRounding) => simInstance.myVal = SingleUpdate

C3_Witness ==
    /\ TwoUpdates
    /\ NoRounding
    /\ calls[Len(calls) - 1].dt = <<1, -1>>
    /\ calls[Len(calls)].dt = <<1, 0>>
    /\ calls[Len(calls)].before.speed = <<1, 1>>
    /\ calls[Len(calls) - 1].before.myVal = <<1, 0>>
    /\ simInstance.myVal = <<1, 2>>

\* C5 as stated: myVal starts at 0, no update lowers it, and it turns
\* negative only in an update made with a negative speed.
C5_MonotoneIncrease ==
    /\ (simInstance # NULL /\ updates = 0) => simInstance.myVal = FZero
    /\ \A i \in UpdateCalls :
          /\ FLeq(calls[i].before.myVal, calls[i].after.myVal)
          /\ (FLeq(FZero, calls[i].before.myVal) /\ FLess(calls[i].after.myVal, FZero))
                => FLess(calls[i].before.speed, FZero)

\* C5 as amended: myVal starts at 0; an update of the frame loop made with
\* speed >= 0 does not lower it; one made with speed < 0 does not raise it;
\* and it turns negative only in an update made with a negative speed.
C5_MonotoneWhileSpeedNonNegative ==
    /\ (simInstance # NULL /\ updates = 0) => simInstance.myVal = FZero
    /\ \A i \in UpdateCalls :
          /\ FLeq(FZero, calls[i].before.speed)
                => FLeq(calls[i].before.myVal, calls[i].after.myVal)
          /\ FLess(calls[i].before.speed, FZero)
                => FLeq(calls[i].after.myVal, calls[i].before.myVal)
          /\ (FLeq(FZero, calls[i].before.myVal) /\ FLess(calls[i].after.myVal, FZero))
                => FLess(calls[i].before.speed, FZero)

C5_Witness ==
    /\ pc = "loop"
    /\ frames = 3
    /\ \E i \in UpdateCalls :
          /\ FLess(FZero, calls[i].before.speed)
          /\ FLess(FZero, calls[i].before.myVal)
          /\ FLess(calls[i].before.myVal, calls[i].after.myVal)

\* C6 as stated: update(dt) with dt < 0 is taken as it is, without clamping,
\* and leaves myVal less than it was.
C6_NegativeDtDecreases ==
    \A i \in UpdateCalls :
        FLess(calls[i].dt, FZero) =>
            /\ calls[i].after.myVal = FAdd(calls[i].before.myVal,
                                           FMul(calls[i].dt, calls[i].before.speed))
            /\ FLess(calls[i].after.myVal, calls[i].before.myVal)

\* C6 as amended: update(dt) with dt < 0 is taken as it is, without clamping;
\* with speed > 0 it leaves myVal no greater than it was, and less unless
\* the sum rounds back; with speed = 0 it leaves myVal as it was; with
\* speed < 0 it leaves myVal no less than it was.
C6_NegativeDtFollowsSpeedSign ==
    \A i \in UpdateCalls :
        LET c == calls[i]
            p == FMul(c.dt, c.before.speed)
        IN  FLess(c.dt, FZero) =>
              /\ c.after.myVal = FAdd(c.before.myVal, p)
              /\ FLess(FZero, c.before.speed) =>
                    /\ FLess(p, FZero)
                    /\ FLeq(c.after.myVal, c.before.myVal)
                    /\ IsExact(ExactSum(c.before.myVal, p)[1], ExactSum(c.before.myVal, p)[2])
                          => FLess(c.after.myVal, c.before.myVal)
              /\ c.before.speed = FZero => c.after.myVal = c.before.myVal
              /\ FLess(c.before.speed, FZero) => FLeq(c.before.myVal, c.after.myVal)

C6_Witness ==
    \E i \in UpdateCalls :
        /\ calls[i].dt = <<-1, -1>>
        /\ calls[i].before.speed = <<1, 1>>
        /\ calls[i].before.myVal = FZero
        /\ calls[i].after.myVal = <<-1, 0>>

\* the last two remembered calls are both calls of draw
TwoDraws ==
    /\ Len(calls) >= 2
    /\ calls[Len(calls) - 1].op = "draw"
    /\ calls[Len(calls)].op = "draw"

\* every point of curve p, drawn with size k, is k / k0 times the point of
\* curve p0, drawn with size k0, at the same t; as exact numbers,
\* p * k0 = p0 * k in both coordinates
ScaledBy(p, k, p0, k0) ==
    \A j \in 1..Len(p) : \A c \in {1, 2} :
        ExactProduct(p[j][c], k0) = ExactProduct(p0[j][c], k)

\* k / k0 is a power of two, up to the sign
PowerOfTwoRatio(k, k0) == k[1] # 0 /\ Abs(k[1]) = Abs(k0[1])

\* the point at t = 0 with size 4.0 is the double of the point at t = 0 with
\* size 2.0, and its x coordinate is 0
DoubleAtZero ==
    \A i, j \in DrawCalls :
        (calls[i].before.size = <<1, 2>> /\ calls[j].before.size = <<1, 1>>) =>
            /\ calls[i].out.curve[1][1] = FZero
            /\ calls[i].out.curve[1][2] = FMul(<<1, 1>>, calls[j].out.curve[1][2])
            /\ IsExact(2 * calls[j].out.curve[1][2][1], calls[j].out.curve[1][2][2])

\* C7 as stated: at every t and for every two sizes k and k0, the point
\* drawn with size k is k / k0 times the point drawn with size k0; the point
\* at t = 0 with size 4.0 is the double of the one with size 2.0, with x = 0.
C7_ScalingInvariance ==
    /\ TwoDraws =>
          ScaledBy(calls[Len(calls)].out.curve, calls[Len(calls)].before.size,
                   calls[Len(calls) - 1].out.curve, calls[Len(calls) - 1].before.size)
    /\ DoubleAtZero

\* C7 as amended: the point drawn with size k is k / k0 times the point
\* drawn with size k0 whenever k / k0 is a power of two; the point at t = 0
\* with size 4.0 is the double of the one with size 2.0, with x = 0.
C7_ScalingByPowerOfTwo ==
    /\ (/\ TwoDraws
        /\ PowerOfTwoRatio(calls[Len(calls)].before.size, calls[Len(calls) - 1].before.size)) =>
          ScaledBy(calls[Len(calls)].out.curve, calls[Len(calls)].before.size,
                   calls[Len(calls) - 1].out.curve, calls[Len(calls) - 1].before.size)
    /\ DoubleAtZero

C7_Witness ==
    /\ TwoDraws
    /\ calls[Len(calls) - 1].before.size = <<1, 1>>
    /\ calls[Len(calls)].before.size = <<1, 2>>
    /\ calls[Len(calls)].out.curve[1][1] = FZero
    /\ calls[Len(calls)].out.curve[1][2] # FZero
    /\ calls[Len(calls)].out.curve # calls[Len(calls) - 1].out.curve
    /\ screen = calls[Len(calls)].out

\* C8: two runs that have each drawn a frame, with equal size at the draw,
\* show the same frame, whatever their speeds, accumulators and frame times
\* have been.
C8_OutputDependsOnSizeOnly ==
    (/\ runs[1].frames > 0
     /\ runs[2].frames > 0
     /\ runs[1].drawn = runs[2].drawn) => runs[1].screen = runs[2].screen

C8_Witness ==
    /\ runs[1].frames = 1
    /\ runs[2].frames = 2
    /\ runs[1].drawn = <<1, 2>>
    /\ runs[2].drawn = <<1, 2>>
    /\ runs[1].sim.speed # runs[2].sim.speed
    /\ runs[1].sim.myVal # runs[2].sim.myVal
    /\ runs[1].screen = runs[2].screen
    /\ runs[1].screen # NoFrame

\* C9: a process starts with no instance and an empty canvas, and main leaves
\* the instance with speed 1.0, size 2.0 and myVal 0.0: until the first frame
\* callback myVal is 0.0, and speed and size are the defaults unless the
\* controller has written them.
C9_DefaultsAtStart ==
    /\ pc = "start" => (simInstance = NULL /\ screen = NoFrame /\ calls = <<>> /\ ~touched)
    /\ (pc = "loop" /\ frames = 0) =>
          /\ simInstance # NULL
          /\ simInstance.myVal = FZero
          /\ updates = 0
          /\ ~touched => (simInstance.speed = <<1, 0>> /\ simInstance.size = <<1, 1>>)

C9_Witness ==
    /\ pc = "loop"
    /\ starts = 2
    /\ frames = 0
    /\ ~touched
    /\ simInstance.speed = <<1, 0>>
    /\ simInstance.size = <<1, 1>>
    /\ simInstance.myVal = FZero

\* draw left the object as it was and update left speed and size as they
\* were, in every remembered call
CallsKeepFrame ==
    /\ \A i \in DrawCalls : calls[i].after = calls[i].before
    /\ \A i \in UpdateCalls :
          /\ calls[i].after.speed = calls[i].before.speed
          /\ calls[i].after.size = calls[i].before.size

\* a step that changes myVal of the instance is a call of update, and a step
\* that changes speed or size is a write of the controller, outside any
\* frame callback
StepsKeepFrame ==
    (simInstance # NULL /\ simInstance' # NULL) =>
        /\ simInstance'.myVal # simInstance.myVal => updates' = updates + 1
        /\ (simInstance'.speed # simInstance.speed \/ simInstance'.size # simInstance.size) =>
              /\ touched'
              /\ simInstance'.myVal = simInstance.myVal
              /\ <<frames', updates', draws', calls', screen'>> = <<frames, updates, draws, calls, screen>>

\* C10: draw leaves speed, size and myVal unchanged, update leaves speed and
\* size unchanged; myVal changes only in update, and speed and size change
\* only by a write of the controller between frames.
C10_FrameConditions == [](CallsKeepFrame) /\ [][StepsKeepFrame]_vars

C10_Witness ==
    /\ frames = 2
    /\ touched
    /\ \E i \in DrawCalls :
          /\ calls[i].before.speed = <<1, 1>>
          /\ calls[i].before.size = <<1, 2>>
          /\ calls[i].before.myVal # FZero
          /\ calls[i].after = calls[i].before
          /\ simInstance = calls[i].after
=============================================================================
